---------------------------- MODULE Spec2Model ----------------------------
(***************************************************************************)
(* A model of the dice-roller bot in src/bot.py: the per-guild config      *)
(* store (cfg in memory, roll_config.json on disk), the outcome model      *)
(* (validate_outcomes, weighted_choice, roll_d100), the six slash commands *)
(* and the on_raw_reaction_add handler.  A handler is a coroutine: it runs *)
(* without interruption up to each await, where other handlers may run.    *)
(*                                                                         *)
(* Python strings that the code takes apart (the odds spec, a message id)  *)
(* are sequences of one-character strings, so that split, strip, isdigit   *)
(* and int are computed and not assumed.  The character "SUP2" stands for  *)
(* U+00B2 (superscript two).  Python values that the code type-tests are   *)
(* tagged records [t |-> type, v |-> value].                               *)
(***************************************************************************)
EXTENDS Integers, Sequences, FiniteSets, TLC

VARIABLES cfg, disk, msgs, tasks, last, arg, ret

vars == <<cfg, disk, msgs, tasks, last, arg, ret>>

-----------------------------------------------------------------------------
(* Python values and strings *)

PyInt(n) == [t |-> "int", v |-> n]
PyBool(n) == [t |-> "bool", v |-> n]
PyFloat(n) == [t |-> "float", v |-> n]
PyStr(s) == [t |-> "str", v |-> s]
PyNone == [t |-> "NoneType", v |-> 0]

\* isinstance(x, (int, float))
IsInstanceNumber(x) == x.t \in {"int", "bool", "float"}

\* isinstance(x, int): bool is a subclass of int
IsInstanceInt(x) == x.t \in {"int", "bool"}

IsInstanceStr(x) == x.t = "str"

\* str.isspace of one character
Whitespace == {" ", "\t", "\n"}

DecimalDigits == <<"0", "1", "2", "3", "4", "5", "6", "7", "8", "9">>

\* characters for which str.isdigit is true and int() fails
OtherDigits == {"SUP2"}

IsDecimal(c) == \E i \in 1..10 : DecimalDigits[i] = c

DigitValue(c) == (CHOOSE i \in 1..10 : DecimalDigits[i] = c) - 1

RECURSIVE LStrip(_)
LStrip(s) ==
    IF s # <<>> /\ Head(s) \in Whitespace THEN LStrip(Tail(s)) ELSE s

RECURSIVE RStrip(_)
RStrip(s) ==
    IF s # <<>> /\ s[Len(s)] \in Whitespace
    THEN RStrip(SubSeq(s, 1, Len(s) - 1)) ELSE s

\* str.strip()
Strip(s) == RStrip(LStrip(s))

\* sep in s
Contains(s, sep) == \E i \in 1..Len(s) : s[i] = sep

FirstIndex(s, sep) == CHOOSE i \in 1..Len(s) :
    s[i] = sep /\ \A j \in 1..(i - 1) : s[j] # sep

\* str.split(sep): every piece, empty ones included
RECURSIVE Split(_, _)
Split(s, sep) ==
    IF ~Contains(s, sep) THEN <<s>>
    ELSE LET i == FirstIndex(s, sep)
         IN  <<SubSeq(s, 1, i - 1)>> \o Split(SubSeq(s, i + 1, Len(s)), sep)

LastIndex(s, sep) == CHOOSE i \in 1..Len(s) :
    s[i] = sep /\ \A j \in (i + 1)..Len(s) : s[j] # sep

\* str.rsplit(sep, 1) of a string that contains sep
SplitLast(s, sep) ==
    LET i == LastIndex(s, sep)
    IN  <<SubSeq(s, 1, i - 1), SubSeq(s, i + 1, Len(s))>>

\* str.split(sep, 1) of a string that contains sep
SplitFirst(s, sep) ==
    LET i == FirstIndex(s, sep)
    IN  <<SubSeq(s, 1, i - 1), SubSeq(s, i + 1, Len(s))>>

\* str.isdigit()
IsDigitStr(s) ==
    s # <<>> /\ \A i \in 1..Len(s) : IsDecimal(s[i]) \/ s[i] \in OtherDigits

RECURSIVE DecimalValue(_, _)
DecimalValue(s, acc) ==
    IF s = <<>> THEN acc
    ELSE DecimalValue(Tail(s), 10 * acc + DigitValue(Head(s)))

\* int(s): [ok |-> FALSE] is ValueError
ParseInt(s) ==
    LET u == Strip(s)
        neg == u # <<>> /\ Head(u) = "-"
        d == IF u # <<>> /\ Head(u) \in {"-", "+"} THEN Tail(u) ELSE u
    IN  IF d # <<>> /\ \A i \in 1..Len(d) : IsDecimal(d[i])
        THEN [ok |-> TRUE,
              v |-> IF neg THEN 0 - DecimalValue(d, 0) ELSE DecimalValue(d, 0)]
        ELSE [ok |-> FALSE, v |-> 0]

-----------------------------------------------------------------------------
(* Outcome model *)

NamePC == <<"p", "o", "w", "e", "r", "s", ",", " ", "c", "u", "r", "s", "e">>
NamePB == <<"p", "o", "w", "e", "r", "s", ",", " ", "b", "l", "e", "s", "s", "i", "n", "g">>
NameNP == <<"n", "o", " ", "p", "o", "w", "e", "r", "s">>

Outcome(name, weight) == [name |-> PyStr(name), weight |-> PyInt(weight)]

RECURSIVE ValidateFrom(_, _, _)
ValidateFrom(outcomes, i, total) ==
    IF i > Len(outcomes)
    THEN IF total # 100
         THEN [ok |-> FALSE, msg |-> <<"weights must total 100", total>>]
         ELSE [ok |-> TRUE, msg |-> <<"OK">>]
    ELSE LET o == outcomes[i]
         IN  IF "name" \notin DOMAIN o \/ "weight" \notin DOMAIN o
             THEN [ok |-> FALSE, msg |-> <<"must have name and weight">>]
             ELSE IF ~IsInstanceStr(o.name) \/ Strip(o.name.v) = <<>>
             THEN [ok |-> FALSE, msg |-> <<"name must be a non-empty string">>]
             ELSE IF ~IsInstanceInt(o.weight) \/ o.weight.v < 0
             THEN [ok |-> FALSE,
                   msg |-> <<"weight must be a non-negative integer">>]
             ELSE ValidateFrom(outcomes, i + 1, total + o.weight.v)

\* validate_outcomes without the check of the total
ValidateNoTotal(outcomes) ==
    LET R == IF outcomes = <<>>
             THEN [ok |-> FALSE, msg |-> <<"at least one outcome">>]
             ELSE ValidateFrom(outcomes, 1, 0)
    IN  IF R.msg[1] = "weights must total 100"
        THEN [ok |-> TRUE, msg |-> <<"OK">>] ELSE R

validate_outcomes(outcomes) ==
    IF outcomes = <<>>
    THEN [ok |-> FALSE, msg |-> <<"at least one outcome">>]
    ELSE ValidateFrom(outcomes, 1, 0)

\* secrets.randbelow(n)
randbelow(n) == 0..(n - 1)

\* roll_d100 without the + 1
RollFromZero(r) == r

\* roll_d100 for the value r that randbelow(100) returned
roll_d100(r) == r + 1

RECURSIVE ChoiceFrom(_, _, _, _)
ChoiceFrom(outcomes, i, cumulative, r) ==
    IF i > Len(outcomes)
    THEN [name |-> outcomes[Len(outcomes)].name.v, index |-> Len(outcomes),
          fallback |-> TRUE]
    ELSE LET c == cumulative + outcomes[i].weight.v
         IN  IF r < c
             THEN [name |-> outcomes[i].name.v, index |-> i,
                   fallback |-> FALSE]
             ELSE ChoiceFrom(outcomes, i + 1, c, r)

\* weighted_choice with the running sum started at 1
ChoiceInclusive(outcomes, r) == ChoiceFrom(outcomes, 1, 1, r)

\* weighted_choice for the value r that randbelow(100) returned
weighted_choice(outcomes, r) == ChoiceFrom(outcomes, 1, 0, r)


-----------------------------------------------------------------------------
(* setodds: the odds spec parser, lines 175-185 *)

\* [p.strip() for p in odds.split(";") if p.strip()]
OddsParts(odds) ==
    LET raw == Split(odds, ";")
        stripped == [i \in 1..Len(raw) |-> Strip(raw[i])]
    IN  SelectSeq(stripped, LAMBDA p : p # <<>>)

\* the loop over parts: "reply" is an early return with an error message,
\* "raise" is the ValueError of int() on a string that isdigit() let through
RECURSIVE ParseParts(_, _, _)
ParseParts(parts, i, parsed) ==
    IF i > Len(parts) THEN [status |-> "ok", parsed |-> parsed, msg |-> <<>>]
    ELSE LET p == parts[i]
         IN  IF ~Contains(p, "=")
             THEN [status |-> "reply", parsed |-> <<>>,
                   msg |-> <<"Bad format">>]
             ELSE LET nw == SplitFirst(p, "=")
                      name == Strip(nw[1])
                      weight_str == Strip(nw[2])
                      n == ParseInt(weight_str)
                  IN  IF ~IsDigitStr(weight_str)
                      THEN [status |-> "reply", parsed |-> <<>>,
                            msg |-> <<"Weight must be an integer", p>>]
                      ELSE IF ~n.ok
                      THEN [status |-> "raise", parsed |-> <<>>,
                            msg |-> <<"ValueError">>]
                      ELSE ParseParts(parts, i + 1,
                                      Append(parsed, Outcome(name, n.v)))

parse_odds(odds) == ParseParts(OddsParts(odds), 1, <<>>)

-----------------------------------------------------------------------------
(* The platform: guilds, channels, users, emoji *)

\* most messages the channels ever hold
MaxMsgs == 3

Guilds == {1}

\* guild ids a reaction payload can carry: none, a guild of the bot, a guild
\* the bot's cache does not hold
PayloadGuilds == {<<>>, <<1>>, <<2>>}

GuildChannels(g) == IF g = 1 THEN {11, 12} ELSE {21}

\* the channel moderators post the roller in, and the one they log to
RollerChannels(g) == IF g = 1 THEN {11} ELSE {21}
LogChannels(g) == IF g = 1 THEN {12} ELSE {21}

\* bot.user.id
Bot == "bot"

Reactors == {Bot, "u1"}

\* guild_permissions of the invoking member
PermSets == [manage_messages : BOOLEAN, administrator : BOOLEAN]

\* the text of a unicode emoji and of a custom emoji, as a moderator types it
EmojiDice == <<"dice">>
EmojiCustom == <<"<", ":", "d6", ":", "7", ">">>

EmojiInputs == {EmojiDice, EmojiCustom}

\* discord.PartialEmoji values a payload can carry
PayloadEmojis ==
    { [name |-> "dice", id |-> <<>>, animated |-> FALSE],
      [name |-> "d6", id |-> <<"7">>, animated |-> FALSE],
      [name |-> "d6", id |-> <<"7">>, animated |-> TRUE] }

\* str(payload.emoji): PartialEmoji.__str__
EmojiStr(e) ==
    IF e.id = <<>> THEN <<e.name>>
    ELSE IF e.animated THEN <<"<", "a", ":", e.name, ":">> \o e.id \o <<">">>
    ELSE <<"<", ":", e.name, ":">> \o e.id \o <<">">>

\* Python truth value of an optional id: None and 0 are false
Truthy(x) == x # <<>> /\ x # <<0>>

-----------------------------------------------------------------------------
(* Config helpers *)

\* save_config that writes nothing
SaveNothing(S) == [S EXCEPT !.writes = @ + 1]

\* json.dump(cfg, f): the document written holds the whole mapping
save_config(S) == [S EXCEPT !.disk = S.cfg, !.writes = @ + 1]

guild_key(guild_id) == ToString(guild_id)

default_guild_config ==
    [trigger_emoji |-> EmojiDice,
     trigger_message_id |-> <<>>,
     trigger_channel_id |-> <<>>,
     mod_channel_id |-> <<>>,
     outcomes |-> <<Outcome(NamePC, 25), Outcome(NamePB, 25),
                    Outcome(NameNP, 50)>>]

Put(c, k, v) == [x \in DOMAIN c \cup {k} |-> IF x = k THEN v ELSE c[x]]

\* get_guild_config with save_config called on every path
GetAlwaysSave(S, guild_id) ==
    LET k == guild_key(guild_id)
    IN  save_config(IF k \notin DOMAIN S.cfg
                    THEN [S EXCEPT !.cfg = Put(S.cfg, k, default_guild_config)]
                    ELSE S)

\* the store after get_guild_config; the record returned is S.cfg[k]
get_guild_config(S, guild_id) ==
    LET k == guild_key(guild_id)
    IN  IF k \notin DOMAIN S.cfg
        THEN save_config([S EXCEPT !.cfg = Put(S.cfg, k, default_guild_config)])
        ELSE S

\* SetField on records that are one shared dict
SetFieldAll(S, guild_id, field, value) ==
    [S EXCEPT !.cfg = [k \in DOMAIN S.cfg |->
                         [S.cfg[k] EXCEPT ![field] = value]]]

\* gconf[field] = value, gconf being the record of guild_id in cfg
SetField(S, guild_id, field, value) ==
    [S EXCEPT !.cfg[guild_key(guild_id)][field] = value]

\* the store as a handler step finds it
Store == [cfg |-> cfg, disk |-> disk, writes |-> 0]

Commit(S) == cfg' = S.cfg /\ disk' = S.disk

\* is_mod without the permission test
IsModAnyone(ig, perms) == ig # <<>>

is_mod(ig, perms) ==
    ig # <<>> /\ (perms.manage_messages \/ perms.administrator)

\* the invoking member holds Manage Messages or Administrator
Capable(perms) == perms.manage_messages \/ perms.administrator

Idle == [pc |-> "idle"]

\* what the last step of a handler did: its response, the save_config calls
\* it made, and its requests to the platform
Step(op, ig, mod, resp, S, fx) ==
    [op |-> op, g |-> ig, mod |-> mod, resp |-> resp,
     writes |-> S.writes, fx |-> fx]

\* a handler's early return: only the private response (none for an event)
Reply(op, ig, mod, resp) ==
    /\ last' = Step(op, ig, mod, resp, Store, {})
    /\ UNCHANGED <<cfg, disk, msgs, tasks, arg, ret>>

NoGuild == <<"Use this in a server.">>
NeedMod == <<"You need Manage Messages (or Admin) to do this.">>

-----------------------------------------------------------------------------
(* Slash commands that finish without suspending *)

OddsDefault == <<"p", "o", "w", "e", "r", "s", ",", " ", "c", "u", "r", "s", "e", "=", "2", "5", ";", " ", "p", "o", "w", "e", "r", "s", ",", " ", "b", "l", "e", "s", "s", "i", "n", "g", "=", "2", "5", ";", " ", "n", "o", " ", "p", "o", "w", "e", "r", "s", "=", "5", "0">>
Odds120 == <<"a", "=", "6", "0", ";", "b", "=", "6", "0">>
OddsFive == <<"a", "=", "f", "i", "v", "e">>
OddsZero == <<" ", "a", " ", "=", " ", "0", " ", ";", " ", "b", "=", "1", "0", "0", ";">>
OddsNoEq == <<"a", "=", "1", "0", "0", ";", "b">>
OddsNoName == <<"=", "1", "0", "0">>
OddsEmpty == <<";">>
OddsSup == <<"a", "=", "SUP2">>

\* the odds specs moderators submit
OddsInputs ==
    {OddsDefault, Odds120, OddsFive, OddsZero, OddsNoEq, OddsNoName,
     OddsEmpty, OddsSup}

\* lines 175-189: the parse, then validate_outcomes; "reply" is an error
\* message sent back, "raise" an exception that leaves the handler
ParseAndValidate(odds) ==
    LET P == parse_odds(odds)
        V == validate_outcomes(P.parsed)
    IN  IF P.status = "raise" THEN [P EXCEPT !.msg = <<"raise">> \o P.msg]
        ELSE IF P.status = "reply" THEN P
        ELSE IF ~V.ok THEN [P EXCEPT !.status = "reply", !.msg = V.msg]
        ELSE [P EXCEPT !.msg = V.msg]

\* the result for each of the inputs
Parsed == [odds \in OddsInputs |-> ParseAndValidate(odds)]

SetModChannel(ig, perms) ==
    IF ig = <<>> THEN Reply("setmodchannel", ig, Capable(perms), NoGuild)
    ELSE IF ~is_mod(ig, perms)
    THEN Reply("setmodchannel", ig, Capable(perms), NeedMod)
    ELSE \E channel \in LogChannels(ig[1]) :
         /\ LET S1 == get_guild_config(Store, ig[1])
                S2 == save_config(SetField(S1, ig[1], "mod_channel_id",
                                           <<channel>>))
            IN  /\ Commit(S2)
                /\ last' = Step("setmodchannel", ig, Capable(perms),
                                <<"Mod log channel set", channel>>, S2, {})
         /\ UNCHANGED <<msgs, tasks, arg, ret>>

SetEmoji(ig, perms) ==
    IF ig = <<>> THEN Reply("setemoji", ig, Capable(perms), NoGuild)
    ELSE IF ~is_mod(ig, perms)
    THEN Reply("setemoji", ig, Capable(perms), NeedMod)
    ELSE \E emoji \in EmojiInputs :
         /\ LET S1 == get_guild_config(Store, ig[1])
                S2 == save_config(SetField(S1, ig[1], "trigger_emoji", emoji))
            IN  /\ Commit(S2)
                /\ last' = Step("setemoji", ig, Capable(perms),
                                <<"Trigger emoji set", emoji>>, S2, {})
         /\ UNCHANGED <<msgs, tasks, arg, ret>>

SetOdds(ig, perms) ==
    IF ig = <<>> THEN Reply("setodds", ig, Capable(perms), NoGuild)
    ELSE IF ~is_mod(ig, perms)
    THEN Reply("setodds", ig, Capable(perms), NeedMod)
    ELSE \E odds \in OddsInputs :
         LET P == Parsed[odds]
         IN  IF P.status # "ok"
             THEN /\ last' = Step("setodds", ig, Capable(perms),
                                  P.msg \o <<odds>>, Store, {})
                  /\ UNCHANGED <<cfg, disk, msgs, tasks, arg, ret>>
             ELSE /\ LET S1 == get_guild_config(Store, ig[1])
                         S2 == save_config(SetField(S1, ig[1], "outcomes",
                                                    P.parsed))
                     IN  /\ Commit(S2)
                         /\ last' = Step("setodds", ig, Capable(perms),
                                         <<"Odds updated", odds>>, S2, {})
                  /\ UNCHANGED <<msgs, tasks, arg, ret>>

ShowOdds(ig, perms) ==
    IF ig = <<>> THEN Reply("showodds", ig, Capable(perms), NoGuild)
    ELSE /\ LET S1 == get_guild_config(Store, ig[1])
            IN  /\ Commit(S1)
                /\ last' = Step("showodds", ig, Capable(perms),
                                <<"Odds">>, S1, {})
         /\ UNCHANGED <<msgs, tasks, arg, ret>>

-----------------------------------------------------------------------------
(* Slash commands that suspend: postroller, editrolllog *)

\* a message of the platform
Message(ch, author, text) == [ch |-> ch, author |-> author, text |-> text]

\* channel.fetch_message(mid) finds a message
Fetchable(ch, mid) == mid \in 1..Len(msgs) /\ msgs[mid].ch = ch

Finish(t) == tasks' = [tasks EXCEPT ![t] = Idle]

\* lines 201-210: up to the await of channel.send
PostRoller(t, ig, perms) ==
    IF ig = <<>> THEN Reply("postroller", ig, Capable(perms), NoGuild)
    ELSE IF ~is_mod(ig, perms)
    THEN Reply("postroller", ig, Capable(perms), NeedMod)
    ELSE \E channel \in RollerChannels(ig[1]) :
         /\ tasks[t] = Idle
         /\ LET S1 == get_guild_config(Store, ig[1])
                emoji == S1.cfg[guild_key(ig[1])].trigger_emoji
            IN  /\ Commit(S1)
                /\ tasks' = [tasks EXCEPT ![t] =
                                [pc |-> "send", op |-> "postroller",
                                 g |-> ig[1], mod |-> Capable(perms),
                                 ch |-> channel,
                                 emoji |-> emoji, mid |-> 0]]
                /\ last' = Step("postroller", ig, Capable(perms), <<"await">>,
                                S1, {})
         /\ UNCHANGED <<msgs, arg, ret>>

\* line 210 returns: the roller message exists, or channel.send raised
PostRollerSent(t, ok) ==
    /\ tasks[t].pc = "send"
    /\ LET T == tasks[t]
           mid == Len(msgs) + 1
       IN  IF ok
           THEN /\ Len(msgs) < MaxMsgs
                /\ msgs' = Append(msgs, Message(T.ch, Bot, "roller"))
                /\ tasks' = [tasks EXCEPT ![t] =
                                [T EXCEPT !.pc = "react", !.mid = mid]]
                /\ last' = Step("postroller", <<T.g>>, T.mod, <<"await">>,
                                Store, {<<"send", T.ch, mid, T.emoji>>})
           ELSE /\ Finish(t)
                /\ msgs' = msgs
                /\ last' = Step("postroller", <<T.g>>, T.mod,
                                <<"raise", "HTTPException">>, Store, {})
    /\ UNCHANGED <<cfg, disk, arg, ret>>

\* a binding that records the message id only
BindMessageOnly(S, T) == SetField(S, T.g, "trigger_message_id", <<T.mid>>)

\* lines 216-217
BindTrigger(S, T) ==
    SetField(SetField(S, T.g, "trigger_message_id", <<T.mid>>),
             T.g, "trigger_channel_id", <<T.ch>>)

\* lines 211-223: add_reaction returns or raises HTTPException, then the
\* binding is recorded and saved
PostRollerReacted(t, ok) ==
    /\ tasks[t].pc = "react"
    /\ LET T == tasks[t]
           S2 == save_config(BindTrigger(Store, T))
       IN  /\ Commit(S2)
           /\ last' = Step("postroller", <<T.g>>, T.mod,
                           <<"Roller posted", T.mid, T.emoji>>, S2,
                           IF ok THEN {<<"react", T.mid, T.emoji>>} ELSE {})
    /\ Finish(t)
    /\ UNCHANGED <<msgs, arg, ret>>

\* the message ids moderators type
MessageIdInputs ==
    {<<DecimalDigits[i + 1]>> : i \in 1..MaxMsgs} \cup {<<"x">>, <<"-", "1">>}

NewText == "edited"

\* lines 249-270: up to the await of ch.fetch_message; resolved is whether
\* guild.get_channel finds a text channel
EditRollLog(t, ig, perms) ==
    IF ig = <<>> THEN Reply("editrolllog", ig, Capable(perms), NoGuild)
    ELSE IF ~is_mod(ig, perms)
    THEN Reply("editrolllog", ig, Capable(perms), NeedMod)
    ELSE LET S1 == get_guild_config(Store, ig[1])
             mod_channel_id == S1.cfg[guild_key(ig[1])].mod_channel_id
             R(resp) == Step("editrolllog", ig, Capable(perms), resp, S1, {})
         IN  /\ Commit(S1)
             /\ UNCHANGED <<msgs, arg, ret>>
             /\ IF ~Truthy(mod_channel_id)
                THEN /\ tasks' = tasks
                     /\ last' = R(<<"Mod channel is not set.">>)
                ELSE \E resolved \in BOOLEAN :
                     IF ~resolved
                     THEN /\ tasks' = tasks
                          /\ last' = R(<<"Mod channel not found.">>)
                     ELSE \E message_id \in MessageIdInputs :
                          LET n == ParseInt(message_id)
                          IN  IF ~n.ok
                              THEN /\ tasks' = tasks
                                   /\ last' =
                                        R(<<"message_id must be a number.",
                                            message_id>>)
                              ELSE /\ tasks[t] = Idle
                                   /\ tasks' = [tasks EXCEPT ![t] =
                                        [pc |-> "fetch", op |-> "editrolllog",
                                         g |-> ig[1],
                                         mod |-> Capable(perms),
                                         ch |-> mod_channel_id[1],
                                         mid |-> n.v]]
                                   /\ last' = R(<<"await">>)

\* Owns without the comparison of the author
OwnsAny(author) == TRUE

\* line 274: msg.author.id != bot.user.id
Owns(author) == author = Bot

NotFoundReply == <<"That message ID wasn't found in the mod channel.">>
NotOwnReply == <<"I can only edit my own log messages.">>

\* lines 270-277: fetch_message returns the message, raises NotFound (caught)
\* or raises another HTTPException (not caught); then the author check
EditRollLogFetched(t, ok) ==
    /\ tasks[t].pc = "fetch"
    /\ LET T == tasks[t]
           resp == IF ~ok THEN <<"raise", "HTTPException">>
                   ELSE IF ~Fetchable(T.ch, T.mid) THEN NotFoundReply
                   ELSE IF ~Owns(msgs[T.mid].author) THEN NotOwnReply
                   ELSE <<"await">>
       IN  /\ last' = Step("editrolllog", <<T.g>>, T.mod, resp, Store, {})
           /\ IF resp = <<"await">>
              THEN tasks' = [tasks EXCEPT ![t].pc = "edit"]
              ELSE Finish(t)
    /\ UNCHANGED <<cfg, disk, msgs, arg, ret>>

\* lines 277-278: msg.edit(content=new_text) returns or raises
EditRollLogEdited(t, ok) ==
    /\ tasks[t].pc = "edit"
    /\ LET T == tasks[t]
       IN  IF ok
           THEN /\ msgs' = [msgs EXCEPT ![T.mid].text = NewText]
                /\ last' = Step("editrolllog", <<T.g>>, T.mod,
                                <<"Edited the roll log message.">>, Store,
                                {<<"edit", T.mid>>})
           ELSE /\ msgs' = msgs
                /\ last' = Step("editrolllog", <<T.g>>, T.mod,
                                <<"raise", "HTTPException">>, Store, {})
    /\ Finish(t)
    /\ UNCHANGED <<cfg, disk, arg, ret>>

-----------------------------------------------------------------------------
(* on_raw_reaction_add *)

\* the values of secrets.randbelow(100) considered for roll_d100
RollSample == {0, 99}

\* Matches without the comparison of the emoji
MatchesAnyEmoji(gconf, payload) ==
    /\ Truthy(gconf.trigger_message_id)
    /\ Truthy(gconf.trigger_channel_id)
    /\ <<payload.message_id>> = gconf.trigger_message_id
    /\ <<payload.channel_id>> = gconf.trigger_channel_id

\* lines 298-305: the event is for the configured trigger
Matches(gconf, payload) ==
    /\ Truthy(gconf.trigger_message_id)
    /\ Truthy(gconf.trigger_channel_id)
    /\ <<payload.message_id>> = gconf.trigger_message_id
    /\ <<payload.channel_id>> = gconf.trigger_channel_id
    /\ EmojiStr(payload.emoji) = gconf.trigger_emoji

\* what weighted_choice can return for a table
Draws(outcomes) == {weighted_choice(outcomes, r) : r \in randbelow(100)}

\* lines 310-319: both draws, then the await of user.send
Rolled(T, d100, outcome) ==
    [T EXCEPT !.pc = "dm", !.d100 = d100, !.outcome = outcome]

\* lines 337-340: the trigger channel resolves and fetch_message is awaited,
\* or the handler is over
Cleanup(t, T, resolved) ==
    IF resolved
    THEN tasks' = [tasks EXCEPT ![t] =
                      [pc |-> "cfetch", op |-> "reaction", g |-> T.g,
                       user |-> T.user, ch |-> T.ch, mid |-> T.mid,
                       emoji |-> T.emoji]]
    ELSE Finish(t)

RollAndSend(t, T, draws, S) ==
    \E r1 \in draws, w \in Draws(cfg'[guild_key(T.g)].outcomes) :
      LET d100 == roll_d100(r1)
      IN  /\ tasks' = [tasks EXCEPT ![t] = Rolled(T, d100, w.name)]
          /\ last' = Step("reaction", <<T.g>>, FALSE, <<"await">>, S,
                          {<<"draw", w.index, w.fallback>>,
                           <<"dm", T.user, d100, w.name>>})

\* lines 286-308 (and 310-315 when the member is cached)
ReactionAdd(t, user_id, guild_id, draws) ==
    IF user_id = Bot THEN Reply("reaction", <<>>, FALSE, <<"ignored", "own">>)
    ELSE IF guild_id = <<>> \/ guild_id[1] \notin Guilds
    THEN Reply("reaction", <<>>, FALSE, <<"ignored", "no guild">>)
    ELSE \E message_id \in 1..Len(msgs), emoji \in PayloadEmojis :
         LET g == guild_id[1]
             payload == [user_id |-> user_id, guild_id |-> guild_id,
                         channel_id |-> msgs[message_id].ch,
                         message_id |-> message_id, emoji |-> emoji]
             S1 == get_guild_config(Store, g)
             gconf == S1.cfg[guild_key(g)]
             T == [pc |-> "fetch_user", op |-> "reaction", g |-> g,
                   user |-> payload.user_id, ch |-> payload.channel_id,
                   mid |-> payload.message_id, emoji |-> payload.emoji,
                   d100 |-> 0, outcome |-> <<>>, dm_ok |-> TRUE,
                   ch_log |-> 0]
         IN  /\ payload.channel_id \in GuildChannels(g)
             /\ Commit(S1)
             /\ UNCHANGED <<msgs, arg, ret>>
             /\ IF ~Matches(gconf, payload)
                THEN /\ tasks' = tasks
                     /\ last' = Step("reaction", <<g>>, FALSE,
                                     <<"ignored", "no match">>, S1, {})
                ELSE /\ tasks[t] = Idle
                     /\ \E cached \in BOOLEAN :
                          IF cached
                          THEN RollAndSend(t, T, draws, S1)
                          ELSE /\ tasks' = [tasks EXCEPT ![t] = T]
                               /\ last' = Step("reaction", <<g>>, FALSE,
                                               <<"await">>, S1, {})

\* line 308 returns or raises, then lines 310-315
ReactionUserFetched(t, ok, draws) ==
    /\ tasks[t].pc = "fetch_user"
    /\ UNCHANGED <<cfg, disk, msgs, arg, ret>>
    /\ IF ok
       THEN RollAndSend(t, tasks[t], draws, Store)
       ELSE /\ Finish(t)
            /\ last' = Step("reaction", <<tasks[t].g>>, FALSE,
                            <<"raise", "HTTPException">>, Store, {})

\* a handler that a failed user.send ends with its exception
DmFailureAborts(t, ok, resolved) ==
    /\ tasks[t].pc = "dm"
    /\ LET T == [tasks[t] EXCEPT !.dm_ok = ok]
           mod_channel_id == cfg[guild_key(T.g)].mod_channel_id
       IN  IF ok
           THEN /\ IF Truthy(mod_channel_id) /\ resolved
                   THEN tasks' = [tasks EXCEPT ![t] =
                                    [T EXCEPT !.pc = "log",
                                              !.ch_log = mod_channel_id[1]]]
                   ELSE Cleanup(t, T, resolved)
                /\ last' = Step("reaction", <<T.g>>, FALSE, <<"await">>,
                                Store, {<<"dm_result", ok>>})
           ELSE /\ Finish(t)
                /\ last' = Step("reaction", <<T.g>>, FALSE,
                                <<"raise", "Forbidden">>, Store,
                                {<<"dm_result", ok>>})
    /\ UNCHANGED <<cfg, disk, msgs, arg, ret>>

\* lines 315-335: user.send returns or raises; the moderator channel is read
\* from the record and resolved
ReactionDmDone(t, ok, resolved) ==
    /\ tasks[t].pc = "dm"
    /\ LET T == [tasks[t] EXCEPT !.dm_ok = ok]
           mod_channel_id == cfg[guild_key(T.g)].mod_channel_id
       IN  /\ IF Truthy(mod_channel_id)
              THEN IF resolved
                   THEN tasks' = [tasks EXCEPT ![t] =
                                    [T EXCEPT !.pc = "log",
                                              !.ch_log = mod_channel_id[1]]]
                   ELSE \E r \in BOOLEAN : Cleanup(t, T, r)
              ELSE Cleanup(t, T, resolved)
           /\ last' = Step("reaction", <<T.g>>, FALSE, <<"await">>, Store,
                           {<<"dm_result", ok>>})
    /\ UNCHANGED <<cfg, disk, msgs, arg, ret>>

\* line 335 returns or raises; an exception leaves the handler
ReactionLogDone(t, ok, resolved) ==
    /\ tasks[t].pc = "log"
    /\ LET T == tasks[t]
           mid == Len(msgs) + 1
       IN  IF ok
           THEN /\ Len(msgs) < MaxMsgs
                /\ msgs' = Append(msgs, Message(T.ch_log, Bot, "log"))
                /\ Cleanup(t, T, resolved)
                /\ last' = Step("reaction", <<T.g>>, FALSE, <<"await">>, Store,
                                {<<"log", T.ch_log, mid, T.user, T.d100,
                                   T.outcome, T.dm_ok, T.mid, T.ch>>})
           ELSE /\ msgs' = msgs
                /\ Finish(t)
                /\ last' = Step("reaction", <<T.g>>, FALSE,
                                <<"raise", "HTTPException">>, Store, {})
    /\ UNCHANGED <<cfg, disk, arg, ret>>

\* line 340 returns or raises (suppressed)
ReactionCleanupFetched(t, ok) ==
    /\ tasks[t].pc = "cfetch"
    /\ LET T == tasks[t]
       IN  IF ok
           THEN /\ Fetchable(T.ch, T.mid)
                /\ tasks' = [tasks EXCEPT ![t].pc = "cremove"]
                /\ last' = Step("reaction", <<T.g>>, FALSE, <<"await">>, Store,
                                {})
           ELSE /\ Finish(t)
                /\ last' = Step("reaction", <<T.g>>, FALSE, <<"done">>, Store,
                                {})
    /\ UNCHANGED <<cfg, disk, msgs, arg, ret>>

\* a remove_reaction whose exception leaves the handler
RemoveFailureRaises(t, ok) ==
    /\ tasks[t].pc = "cremove"
    /\ LET T == tasks[t]
       IN  last' = Step("reaction", <<T.g>>, FALSE,
                        IF ok THEN <<"done">>
                        ELSE <<"raise", "HTTPException">>, Store,
                        IF ok THEN {<<"unreact", T.mid, T.user>>} ELSE {})
    /\ Finish(t)
    /\ UNCHANGED <<cfg, disk, msgs, arg, ret>>

\* line 341 returns or raises (suppressed)
ReactionCleanupRemoved(t, ok) ==
    /\ tasks[t].pc = "cremove"
    /\ LET T == tasks[t]
       IN  last' = Step("reaction", <<T.g>>, FALSE, <<"done">>, Store,
                        IF ok THEN {<<"unreact", T.mid, T.user>>} ELSE {})
    /\ Finish(t)
    /\ UNCHANGED <<cfg, disk, msgs, arg, ret>>

-----------------------------------------------------------------------------
(* The specification *)

TaskIds == {"t1"}

EmptyMap == [k \in {} |-> 0]

\* channel 12 holds a member's message; no handler has run
InitPlatform ==
    /\ msgs = <<Message(12, "u2", "hello")>>
    /\ tasks = [t \in TaskIds |-> Idle]
    /\ last = [op |-> "load_config", g |-> <<>>, mod |-> FALSE, resp |-> <<>>,
               writes |-> 0, fx |-> {}]

\* load_config() with no roll_config.json
Init ==
    /\ cfg = EmptyMap
    /\ disk = EmptyMap
    /\ InitPlatform
    /\ arg = <<>>
    /\ ret = <<>>

NoPerms == [manage_messages |-> FALSE, administrator |-> FALSE]

\* who invokes a command: a user in a direct message (no guild, no guild
\* permissions) or a member of a guild with any permissions
Callers ==
    {<<<<>>, NoPerms>>}
      \cup {<<<<g>>, perms>> : g \in Guilds, perms \in PermSets}

Next ==
    \/ \E c \in Callers : SetModChannel(c[1], c[2])
    \/ \E c \in Callers : SetEmoji(c[1], c[2])
    \/ \E c \in Callers : SetOdds(c[1], c[2])
    \/ \E c \in Callers : ShowOdds(c[1], c[2])
    \/ \E t \in TaskIds, c \in Callers : PostRoller(t, c[1], c[2])
    \/ \E t \in TaskIds, ok \in BOOLEAN : PostRollerSent(t, ok)
    \/ \E t \in TaskIds, ok \in BOOLEAN : PostRollerReacted(t, ok)
    \/ \E t \in TaskIds, c \in Callers : EditRollLog(t, c[1], c[2])
    \/ \E t \in TaskIds, ok \in BOOLEAN : EditRollLogFetched(t, ok)
    \/ \E t \in TaskIds, ok \in BOOLEAN : EditRollLogEdited(t, ok)
    \/ \E t \in TaskIds, u \in Reactors, pg \in PayloadGuilds :
         ReactionAdd(t, u, pg, RollSample)
    \/ \E t \in TaskIds, ok \in BOOLEAN :
         ReactionUserFetched(t, ok, RollSample)
    \/ \E t \in TaskIds, ok \in BOOLEAN, res \in BOOLEAN :
         ReactionDmDone(t, ok, res)
    \/ \E t \in TaskIds, ok \in BOOLEAN, res \in BOOLEAN :
         ReactionLogDone(t, ok, res)
    \/ \E t \in TaskIds, ok \in BOOLEAN : ReactionCleanupFetched(t, ok)
    \/ \E t \in TaskIds, ok \in BOOLEAN : ReactionCleanupRemoved(t, ok)

Spec == Init /\ [][Next]_vars

-----------------------------------------------------------------------------
(* The bot started on a roll_config.json that already holds another guild *)

\* a record that earlier commands for guild 2 left in roll_config.json
OtherGuildRecord ==
    [trigger_emoji |-> EmojiCustom,
     trigger_message_id |-> <<1>>,
     trigger_channel_id |-> <<21>>,
     mod_channel_id |-> <<21>>,
     outcomes |-> <<Outcome(<<"a">>, 0), Outcome(<<"b">>, 100)>>]

\* load_config() returns the document on disk
InitIso ==
    /\ cfg = Put(EmptyMap, guild_key(2), OtherGuildRecord)
    /\ disk = cfg
    /\ InitPlatform
    /\ arg = <<>>
    /\ ret = <<>>

SpecIso == InitIso /\ [][Next]_vars

-----------------------------------------------------------------------------
(* The functions of the outcome model and the store, applied to an input:   *)
(* arg is the input, ret is <<>> before the call and <<result>> after it    *)

\* most entries of an outcomes list, and most items of an odds spec
MaxEntries == 3

SeqsUpTo(S, n) == UNION {[1..k -> S] : k \in 0..n}

\* the store and the platform take no part
Apart ==
    /\ cfg = EmptyMap
    /\ disk = EmptyMap
    /\ InitPlatform
    /\ ret = <<>>

\* entries a caller of validate_outcomes can pass: weights that are negative,
\* zero, positive, a float, a string; names that are blank, empty, no
\* string; entries that lack a key
EntryInputs ==
    {Outcome(<<"a">>, w) : w \in {0 - 50, 0, 49, 50, 51, 100}}
      \cup {[name |-> PyStr(<<"a">>), weight |-> PyFloat(100)],
            [name |-> PyStr(<<"a">>), weight |-> PyStr(<<"1", "0", "0">>)],
            Outcome(<<" ", "\t">>, 100), Outcome(<<>>, 100),
            [name |-> PyInt(7), weight |-> PyInt(100)],
            [name |-> PyStr(<<"a">>)], [weight |-> PyInt(100)]}

ValidateInputs == SeqsUpTo(EntryInputs, MaxEntries)

InitValidate == Apart /\ arg \in ValidateInputs

Validate ==
    /\ ret = <<>>
    /\ ret' = <<validate_outcomes(arg)>>
    /\ UNCHANGED <<cfg, disk, msgs, tasks, last, arg>>

SpecValidate == InitValidate /\ [][Validate]_vars

\* outcomes tables that validate_outcomes accepts
DrawNames == <<"A", "B", "C", "D">>

DrawWeights == {0, 1, 25, 50, 75, 99, 100}

DrawTables ==
    {[i \in 1..Len(ws) |-> Outcome(<<DrawNames[i]>>, ws[i])] :
       ws \in SeqsUpTo(DrawWeights, MaxEntries)}

InitDraw ==
    /\ Apart
    /\ arg \in DrawTables
    /\ validate_outcomes(arg).ok

Draw(r) ==
    /\ ret' = <<[r |-> r, choice |-> weighted_choice(arg, r)]>>
    /\ UNCHANGED <<cfg, disk, msgs, tasks, last, arg>>

SpecDraw == InitDraw /\ [][\E r \in randbelow(100) : Draw(r)]_vars

\* items of an odds spec, as typed between the semicolons
ItemCurse == <<"p", "o", "w", "e", "r", "s", ",", " ", "c", "u", "r", "s", "e", "=", "2", "5">>
ItemBlessing == <<" ", "p", "o", "w", "e", "r", "s", ",", " ", "b", "l", "e", "s", "s", "i", "n", "g", "=", "2", "5">>
ItemNone == <<" ", "n", "o", " ", "p", "o", "w", "e", "r", "s", "=", "5", "0">>
ItemA60 == <<"a", "=", "6", "0">>
ItemB60 == <<"b", "=", "6", "0">>
ItemB40 == <<" ", "b", " ", "=", " ", "4", "0", " ">>
ItemFive == <<"a", "=", "f", "i", "v", "e">>
ItemBare == <<"a">>
ItemBlank == <<" ">>
ItemSup == <<"a", "=", "SUP2">>
ItemTwoEq == <<"a", "=", "b", "=", "4", "0">>
ItemNoName == <<"=", "1", "0", "0">>

ItemInputs ==
    {ItemCurse, ItemBlessing, ItemNone, ItemA60, ItemB60, ItemB40, ItemFive,
     ItemBare, ItemBlank, ItemSup, ItemTwoEq, ItemNoName}

\* ";".join(items)
RECURSIVE Join(_)
Join(items) ==
    IF items = <<>> THEN <<>>
    ELSE IF Len(items) = 1 THEN items[1]
    ELSE items[1] \o <<";">> \o Join(Tail(items))

InitParse == Apart /\ arg \in SeqsUpTo(ItemInputs, MaxEntries)

Parse ==
    /\ ret = <<>>
    /\ ret' = <<ParseAndValidate(Join(arg))>>
    /\ UNCHANGED <<cfg, disk, msgs, tasks, last, arg>>

SpecParse == InitParse /\ [][Parse]_vars

\* records roll_config.json can hold: the default, and records that the
\* commands have changed
RecordInputs ==
    {default_guild_config, OtherGuildRecord,
     [default_guild_config EXCEPT !.mod_channel_id = <<12>>],
     [default_guild_config EXCEPT !.trigger_message_id = <<2>>,
                                  !.trigger_channel_id = <<11>>]}

\* what load_config can return for two guilds
MapInputs ==
    UNION {[K -> RecordInputs] : K \in SUBSET {guild_key(1), guild_key(2)}}

GuildIdInputs == {1, 2, 3}

InitStore == Apart /\ arg \in [cfg : MapInputs, guild_id : GuildIdInputs]

\* get_guild_config(cfg, guild_id) twice in sequence on a store in which
\* memory and disk agree; writes counts the save_config calls of both
GetTwice ==
    /\ ret = <<>>
    /\ LET S0 == [cfg |-> arg.cfg, disk |-> arg.cfg, writes |-> 0]
           S1 == get_guild_config(S0, arg.guild_id)
           S2 == get_guild_config(S1, arg.guild_id)
       IN  ret' = <<[first |-> S1, second |-> S2]>>
    /\ UNCHANGED <<cfg, disk, msgs, tasks, last, arg>>

SpecStore == InitStore /\ [][GetTwice]_vars

-----------------------------------------------------------------------------
(* Rolls with the whole range of secrets.randbelow(100), in a guild whose   *)
(* roller message is posted                                                  *)

\* the tables of DrawTables that setodds accepts whose entries are certain,
\* impossible, or drawn for one value of r only
RollTables ==
    {outcomes \in DrawTables :
       /\ validate_outcomes(outcomes).ok
       /\ \A i \in 1..Len(outcomes) :
            outcomes[i].weight.v \in {0, 1, 99, 100}}

\* a record that postroller and setodds left in roll_config.json
RollerRecord(outcomes) ==
    [trigger_emoji |-> EmojiDice,
     trigger_message_id |-> <<1>>,
     trigger_channel_id |-> <<11>>,
     mod_channel_id |-> <<>>,
     outcomes |-> outcomes]

\* load_config() returns the document on disk; message 1 is the roller
\* message of guild 1
InitRoll ==
    /\ \E outcomes \in RollTables :
         cfg = Put(EmptyMap, guild_key(1), RollerRecord(outcomes))
    /\ disk = cfg
    /\ msgs = <<Message(11, Bot, "roller")>>
    /\ tasks = [t \in TaskIds |-> Idle]
    /\ last = [op |-> "load_config", g |-> <<>>, mod |-> FALSE, resp |-> <<>>,
               writes |-> 0, fx |-> {}]
    /\ arg = <<>>
    /\ ret = <<>>

ModPerms == [manage_messages |-> TRUE, administrator |-> FALSE]

\* reactions, and a moderator who changes the odds in between
NextRoll ==
    \/ SetOdds(<<1>>, ModPerms)
    \/ \E t \in TaskIds, u \in Reactors, pg \in PayloadGuilds :
         ReactionAdd(t, u, pg, randbelow(100))
    \/ \E t \in TaskIds, ok \in BOOLEAN :
         ReactionUserFetched(t, ok, randbelow(100))
    \/ \E t \in TaskIds, ok \in BOOLEAN, res \in BOOLEAN :
         ReactionDmDone(t, ok, res)
    \/ \E t \in TaskIds, ok \in BOOLEAN : ReactionCleanupFetched(t, ok)
    \/ \E t \in TaskIds, ok \in BOOLEAN : ReactionCleanupRemoved(t, ok)

SpecRoll == InitRoll /\ [][NextRoll]_vars

-----------------------------------------------------------------------------
(* Two handlers at a time: the event loop runs a second command or event    *)
(* while the first one is suspended in an await                              *)

ConcTasks == {"t1", "t2"}

\* load_config() with no roll_config.json, no message on the platform
InitConc ==
    /\ cfg = EmptyMap
    /\ disk = EmptyMap
    /\ msgs = <<>>
    /\ tasks = [t \in ConcTasks |-> Idle]
    /\ last = [op |-> "load_config", g |-> <<>>, mod |-> FALSE, resp |-> <<>>,
               writes |-> 0, fx |-> {}]
    /\ arg = <<>>
    /\ ret = <<>>

\* a moderator's commands in guild 1, two of them suspended at a time, and
\* the handler of a member's reaction
NextConc ==
    \/ SetModChannel(<<1>>, ModPerms)
    \/ SetEmoji(<<1>>, ModPerms)
    \/ \E t \in ConcTasks : PostRoller(t, <<1>>, ModPerms)
    \/ \E t \in ConcTasks, ok \in BOOLEAN : PostRollerSent(t, ok)
    \/ \E t \in ConcTasks, ok \in BOOLEAN : PostRollerReacted(t, ok)
    \/ ReactionAdd("t1", "u1", <<1>>, {0})
    \/ \E ok \in BOOLEAN : ReactionUserFetched("t1", ok, {0})
    \/ \E ok \in BOOLEAN, res \in BOOLEAN : ReactionDmDone("t1", ok, res)
    \/ \E ok \in BOOLEAN, res \in BOOLEAN : ReactionLogDone("t1", ok, res)
    \/ \E ok \in BOOLEAN : ReactionCleanupFetched("t1", ok)
    \/ \E ok \in BOOLEAN : ReactionCleanupRemoved("t1", ok)

SpecConc == InitConc /\ [][NextConc]_vars

-----------------------------------------------------------------------------
(* Properties *)

RECURSIVE SumWeights(_)
SumWeights(outcomes) ==
    IF outcomes = <<>> THEN 0
    ELSE Head(outcomes).weight.v + SumWeights(Tail(outcomes))

\* at least one entry, weights non-negative integers that sum to 100
TableSound(outcomes) ==
    /\ Len(outcomes) >= 1
    /\ \A i \in 1..Len(outcomes) :
         outcomes[i].weight.t = "int" /\ outcomes[i].weight.v >= 0
    /\ SumWeights(outcomes) = 100

ZeroHundred == <<Outcome(<<"a">>, 0), Outcome(<<"b">>, 100)>>

\* C1: in every state reachable from the empty store, every guild record in
\* memory and every guild record on disk has an outcomes table with at least
\* one entry and non-negative integer weights that sum to exactly 100, and
\* so has the table of every weighted draw
C1_OutcomesTotal100 ==
    /\ \A k \in DOMAIN cfg : TableSound(cfg[k].outcomes)
    /\ \A k \in DOMAIN disk : TableSound(disk[k].outcomes)
    /\ \A e \in last.fx :
         e[1] = "draw" => TableSound(cfg[guild_key(last.g[1])].outcomes)

\* a draw from a table that setodds stored, the table being on disk too
C1_Witness ==
    /\ \E e \in last.fx : e[1] = "draw"
    /\ guild_key(1) \in DOMAIN disk
    /\ cfg[guild_key(1)].outcomes = ZeroHundred
    /\ disk[guild_key(1)].outcomes = ZeroHundred

\* the sum of the weights before entry i
CumulativeBefore(outcomes, i) == SumWeights(SubSeq(outcomes, 1, i - 1))

\* r lies in the interval of entry i
InInterval(outcomes, i, r) ==
    /\ CumulativeBefore(outcomes, i) <= r
    /\ r < CumulativeBefore(outcomes, i) + outcomes[i].weight.v

TableABC == <<Outcome(<<"A">>, 25), Outcome(<<"B">>, 25), Outcome(<<"C">>, 50)>>

\* C2: for a table that validate_outcomes accepts and every r in 0..99,
\* exactly one entry i has cumulative_before_i <= r < cumulative_before_i +
\* weight_i, weighted_choice returns the name of that entry, and the fallback
\* after the loop is not taken; for A/25, B/25, C/50 it is A below 25, B
\* from 25 to 49, C from 50 to 99
C2_DrawPartitionsRange ==
    ret # <<>> =>
      LET r == ret[1].r
          choice == ret[1].choice
      IN  /\ Cardinality({i \in 1..Len(arg) : InInterval(arg, i, r)}) = 1
          /\ InInterval(arg, choice.index, r)
          /\ choice.name = arg[choice.index].name.v
          /\ ~choice.fallback
          /\ arg = TableABC =>
               choice.name = IF r < 25 THEN <<"A">>
                             ELSE IF r < 50 THEN <<"B">> ELSE <<"C">>

\* a draw at the edge of an interval that follows an entry of weight 0
C2_Witness ==
    /\ arg = <<Outcome(<<"A">>, 0), Outcome(<<"B">>, 1), Outcome(<<"C">>, 99)>>
    /\ ret # <<>>
    /\ ret[1].r = 1
    /\ ret[1].choice.name = <<"C">>

\* emoji dice, no trigger binding, no mod channel, the presets 25/25/50
PresetRecord ==
    [trigger_emoji |-> <<"dice">>,
     trigger_message_id |-> <<>>,
     trigger_channel_id |-> <<>>,
     mod_channel_id |-> <<>>,
     outcomes |-> <<Outcome(NamePC, 25), Outcome(NamePB, 25),
                    Outcome(NameNP, 50)>>]

\* C3: get_guild_config called twice in sequence for a guild without a
\* record returns the preset default record both times and calls save_config
\* exactly once, on the first call, leaving the other records as they were;
\* called for a guild that has a record it returns that record and writes
\* nothing
C3_GetOrCreateIdempotent ==
    ret # <<>> =>
      LET k == guild_key(arg.guild_id)
          S1 == ret[1].first
          S2 == ret[1].second
      IN  IF k \notin DOMAIN arg.cfg
          THEN /\ S1.cfg[k] = PresetRecord
               /\ S2.cfg[k] = S1.cfg[k]
               /\ S1.writes = 1
               /\ S2.writes = 1
               /\ S1.disk = S1.cfg
               /\ S2 = S1
               /\ DOMAIN S1.cfg = DOMAIN arg.cfg \cup {k}
               /\ \A j \in DOMAIN arg.cfg : S1.cfg[j] = arg.cfg[j]
          ELSE /\ S1.cfg = arg.cfg
               /\ S2.cfg = arg.cfg
               /\ S2.writes = 0
               /\ S2.disk = arg.cfg

\* both calls made for guild 1 on a store that holds only guild 2
C3_Witness ==
    /\ ret # <<>>
    /\ arg.guild_id = 1
    /\ DOMAIN arg.cfg = {guild_key(2)}
    /\ ret[1].second.writes = 1
    /\ guild_key(1) \in DOMAIN ret[1].second.disk

\* not empty and not only whitespace
NotBlank(s) == \E i \in 1..Len(s) : s[i] \notin Whitespace

WellFormed(o) ==
    /\ {"name", "weight"} \subseteq DOMAIN o
    /\ o.name.t = "str"
    /\ NotBlank(o.name.v)
    /\ o.weight.t = "int"
    /\ o.weight.v >= 0

Acceptable(outcomes) ==
    /\ Len(outcomes) >= 1
    /\ \A i \in 1..Len(outcomes) : WellFormed(outcomes[i])
    /\ SumWeights(outcomes) = 100

\* the sum of the weights of a list of well-formed entries, d for another
SumWeightsOr(outcomes, d) ==
    IF \A i \in 1..Len(outcomes) : WellFormed(outcomes[i])
    THEN SumWeights(outcomes) ELSE d

\* C4: validate_outcomes accepts a list exactly when it has at least one
\* entry, every entry has a name that is a string with a character other
\* than whitespace and a weight that is an integer >= 0, and the weights sum
\* to 100, whatever the number of entries; every list it rejects (the empty
\* list, a sum other than 100, a negative or non-integer weight) gets a reason
C4_ValidateAcceptsExactly ==
    ret # <<>> =>
      /\ ret[1].ok <=> Acceptable(arg)
      /\ ret[1].ok => ret[1].msg = <<"OK">>
      /\ ~ret[1].ok => ret[1].msg # <<>> /\ ret[1].msg # <<"OK">>
      /\ arg = <<>> \/ SumWeightsOr(arg, 0) \in {99, 101} => ~ret[1].ok

\* a list of three entries that sum to 100 has been accepted
C4_Witness ==
    /\ ret # <<>>
    /\ arg = <<Outcome(<<"a">>, 49), Outcome(<<"a">>, 0), Outcome(<<"a">>, 51)>>
    /\ ret[1].ok

\* what an item of an odds spec says, read by eye: an entry, a blank, an
\* item without "=", an item whose weight is no integer literal
ItemMeaning(item) ==
    CASE item = ItemCurse -> [kind |-> "entry", name |-> NamePC, weight |-> 25]
      [] item = ItemBlessing ->
           [kind |-> "entry", name |-> NamePB, weight |-> 25]
      [] item = ItemNone -> [kind |-> "entry", name |-> NameNP, weight |-> 50]
      [] item = ItemA60 -> [kind |-> "entry", name |-> <<"a">>, weight |-> 60]
      [] item = ItemB60 -> [kind |-> "entry", name |-> <<"b">>, weight |-> 60]
      [] item = ItemB40 -> [kind |-> "entry", name |-> <<"b">>, weight |-> 40]
      [] item = ItemNoName -> [kind |-> "entry", name |-> <<>>, weight |-> 100]
      [] item = ItemBlank -> [kind |-> "blank"]
      [] item = ItemBare -> [kind |-> "no equals"]
      [] item = ItemFive -> [kind |-> "no integer"]
      [] item = ItemTwoEq -> [kind |-> "no integer"]
      [] item = ItemSup -> [kind |-> "no integer"]

NonBlankItems(items) ==
    SelectSeq(items, LAMBDA it : ItemMeaning(it).kind # "blank")

AllEntries(items) ==
    \A i \in 1..Len(items) : ItemMeaning(items[i]).kind \in {"entry", "blank"}

ExpectedOutcomes(items) ==
    LET E == NonBlankItems(items)
    IN  [i \in 1..Len(E) |->
           Outcome(ItemMeaning(E[i]).name, ItemMeaning(E[i]).weight)]

\* the kind of the first item that is no entry
FirstFault(items) ==
    LET E == NonBlankItems(items)
        i == CHOOSE n \in 1..Len(E) :
               /\ ItemMeaning(E[n]).kind # "entry"
               /\ \A m \in 1..(n - 1) : ItemMeaning(E[m]).kind = "entry"
    IN  ItemMeaning(E[i]).kind

\* C6: the odds spec is split on ";" into items and each item on its first
\* "=" into a trimmed name and an integer weight: when every item is an
\* entry the parsed list holds the entries' names and weights in order, and
\* it is accepted exactly when validate_outcomes accepts it; a spec with an
\* item that is no entry is never accepted.  "powers, curse=25; powers,
\* blessing=25; no powers=50" gives the three outcomes in that order,
\* "a=60;b=60" is rejected with the total 120, "a=five" as a malformed entry
C6_ParseOddsSpec ==
    ret # <<>> =>
      LET P == ret[1]
      IN  /\ AllEntries(arg) =>
               /\ P.parsed = ExpectedOutcomes(arg)
               /\ P.status = IF Acceptable(P.parsed) THEN "ok" ELSE "reply"
          /\ ~AllEntries(arg) =>
               /\ P.status # "ok"
               /\ FirstFault(arg) = "no equals" => P.msg = <<"Bad format">>
          /\ arg = <<ItemCurse, ItemBlessing, ItemNone>> =>
               /\ P.status = "ok"
               /\ P.parsed = <<Outcome(NamePC, 25), Outcome(NamePB, 25),
                               Outcome(NameNP, 50)>>
          /\ arg = <<ItemA60, ItemB60>> =>
               /\ P.status = "reply"
               /\ P.msg = <<"weights must total 100", 120>>
          /\ arg = <<ItemFive>> =>
               /\ P.status = "reply"
               /\ P.msg = <<"Weight must be an integer", ItemFive>>

\* the example of three outcomes has been parsed
C6_Witness ==
    /\ arg = <<ItemCurse, ItemBlessing, ItemNone>>
    /\ ret # <<>>
    /\ Len(ret[1].parsed) = 3
    /\ ret[1].status = "ok"

\* the record of guild key k as a handler finds or creates it
RecordBefore(k) == IF k \in DOMAIN cfg THEN cfg[k] ELSE PresetRecord

\* the error messages setodds sends back
OddsReasons ==
    {"Bad format", "Weight must be an integer", "at least one outcome",
     "must have name and weight", "name must be a non-empty string",
     "weight must be a non-negative integer", "weights must total 100"}

\* the odds specs among OddsInputs that name a sound table, and the table
PassingOdds == {OddsDefault, OddsZero}

TableOf(odds) ==
    IF odds = OddsDefault THEN PresetRecord.outcomes ELSE ZeroHundred

\* C5: setodds by a moderator of a guild: an odds spec that fails parsing or
\* validation is answered with the reason and leaves cfg and disk unchanged;
\* an odds spec that passes replaces the guild's outcomes by the parsed list
\* in the order given, all other fields and all other records unchanged, and
\* disk holds the result
C5_SetOddsReasonOrReplace ==
    [][(last'.op = "setodds" /\ last'.mod /\ last'.g # <<>>) =>
         LET k == guild_key(last'.g[1])
             odds == last'.resp[Len(last'.resp)]
         IN  IF odds \in PassingOdds
             THEN /\ last'.resp[1] = "Odds updated"
                  /\ cfg' = Put(cfg, k, [RecordBefore(k) EXCEPT
                                           !.outcomes = TableOf(odds)])
                  /\ disk' = cfg'
             ELSE /\ last'.resp[1] \in OddsReasons
                  /\ cfg' = cfg
                  /\ disk' = disk]_vars

MutatingCommands ==
    {"setmodchannel", "setemoji", "setodds", "postroller", "editrolllog"}

\* C7: a mutating command (setmodchannel, setemoji, setodds, postroller,
\* editrolllog) invoked by a caller with neither Manage Messages nor
\* Administrator only sends back the permission error (in a direct message,
\* where there is no guild, the "use this in a server" error): cfg and disk
\* are unchanged, no default record is created, no message is posted or
\* edited, no reaction is attached and no handler is left suspended; showodds
\* invoked by such a member of a guild succeeds
C7_NeedsModeratorCapability ==
    [][/\ (last'.op \in MutatingCommands /\ ~last'.mod) =>
            /\ last'.resp = IF last'.g = <<>> THEN NoGuild ELSE NeedMod
            /\ last'.fx = {}
            /\ last'.writes = 0
            /\ UNCHANGED <<cfg, disk, msgs, tasks>>
       /\ (last'.op = "showodds" /\ ~last'.mod /\ last'.g # <<>>) =>
            last'.resp = <<"Odds">>]_vars

\* postroller of a member without the capability has been refused while the
\* store holds no record
C7_Witness ==
    /\ last.op = "postroller"
    /\ ~last.mod
    /\ last.g = <<1>>
    /\ last.resp = NeedMod
    /\ cfg = EmptyMap
    /\ disk = EmptyMap

\* the handler step taken starts the roll for a reaction event
Dispatches(t) ==
    /\ tasks[t].pc = "idle"
    /\ tasks'[t].pc # "idle"
    /\ tasks'[t].op = "reaction"

RollEffects == {"draw", "dm", "dm_result", "log", "unreact"}

\* C8: a reaction event is dispatched only if the reactor is not the bot, the
\* event's guild is one the bot holds, the guild's trigger_message_id and
\* trigger_channel_id are set and equal the event's message and channel ids,
\* and the text of the event's emoji equals trigger_emoji; an ignored event
\* has no effect, and a direct message, a log post or a reaction removal
\* comes only from a dispatched event
C8_DispatchOnlyOnTrigger ==
    [][/\ \A t \in TaskIds :
            Dispatches(t) =>
              LET T == tasks'[t]
                  k == guild_key(T.g)
              IN  /\ T.user # Bot
                  /\ T.g \in Guilds
                  /\ k \in DOMAIN cfg
                  /\ cfg[k].trigger_message_id # <<>>
                  /\ cfg[k].trigger_channel_id # <<>>
                  /\ cfg[k].trigger_message_id = <<T.mid>>
                  /\ cfg[k].trigger_channel_id = <<T.ch>>
                  /\ EmojiStr(T.emoji) = cfg[k].trigger_emoji
       /\ (last'.op = "reaction" /\ last'.resp[1] = "ignored") =>
            /\ last'.fx = {}
            /\ UNCHANGED <<msgs, tasks>>
       /\ (\E e \in last'.fx : e[1] \in RollEffects) =>
            \E t \in TaskIds :
              \/ Dispatches(t)
              \/ tasks[t].pc # "idle" /\ tasks[t].op = "reaction"]_vars

\* a reaction with the custom emoji of the guild has been dispatched
C8_Witness ==
    \E t \in TaskIds :
      /\ tasks[t].pc = "dm"
      /\ tasks[t].emoji.name = "d6"
      /\ cfg[guild_key(tasks[t].g)].trigger_emoji = EmojiCustom
      /\ \E e \in last.fx : e[1] = "dm"

Fields ==
    {"trigger_emoji", "trigger_message_id", "trigger_channel_id",
     "mod_channel_id", "outcomes"}

\* the fields of its guild's record a handler may change
MayChange(op) ==
    CASE op = "setmodchannel" -> {"mod_channel_id"}
      [] op = "setemoji" -> {"trigger_emoji"}
      [] op = "setodds" -> {"outcomes"}
      [] op = "postroller" -> {"trigger_message_id", "trigger_channel_id"}
      [] OTHER -> {}

\* the keys of the guild a step was taken for
OwnKeys(ig) == IF ig = <<>> THEN {} ELSE {guild_key(ig[1])}

\* C9: a step of a command or of the reaction handler for guild G leaves the
\* record of every other guild unchanged in cfg and on disk and adds no
\* record but G's; in G's record (the default one if the step created it)
\* setmodchannel changes only mod_channel_id, setemoji only trigger_emoji,
\* setodds only outcomes, postroller only trigger_message_id and
\* trigger_channel_id, and the other handlers no field
C9_GuildIsolationAndFrame ==
    [][LET own == OwnKeys(last'.g)
       IN  /\ DOMAIN cfg \subseteq DOMAIN cfg'
           /\ DOMAIN disk \subseteq DOMAIN disk'
           /\ DOMAIN cfg' \subseteq DOMAIN cfg \cup own
           /\ DOMAIN disk' \subseteq DOMAIN disk \cup own
           /\ \A k \in DOMAIN cfg \ own : cfg'[k] = cfg[k]
           /\ \A k \in DOMAIN disk \ own : disk'[k] = disk[k]
           /\ \A k \in own \cap DOMAIN cfg' :
                \A f \in Fields \ MayChange(last'.op) :
                  cfg'[k][f] = RecordBefore(k)[f]]_vars

\* postroller has bound the trigger of guild 1 after setodds and setemoji
\* changed its record, next to the record of guild 2
C9_Witness ==
    /\ last.op = "postroller"
    /\ last.resp[1] = "Roller posted"
    /\ cfg[guild_key(2)] = OtherGuildRecord
    /\ disk[guild_key(2)] = OtherGuildRecord
    /\ cfg[guild_key(1)].trigger_message_id # <<>>
    /\ cfg[guild_key(1)].outcomes = ZeroHundred
    /\ cfg[guild_key(1)].trigger_emoji = EmojiCustom
    /\ disk[guild_key(1)] = cfg[guild_key(1)]

\* the replies of editrolllog before it awaits fetch_message
EditRefusals ==
    {NoGuild, NeedMod, <<"Mod channel is not set.">>,
     <<"Mod channel not found.">>}

\* C10: editrolllog changes a message only if the guild's mod channel is
\* set and resolved, the message id is a number, the message is in the mod
\* channel and its author is the bot; a call that stops since one of these
\* fails is answered with the error for it and changes no message (a
\* fetch_message that fails otherwise ends the call with its exception, also
\* without a change); no step of editrolllog changes a record that exists,
\* in cfg or on disk
C10_EditOnlyOwnLogMessage ==
    [][/\ \A m \in 1..Len(msgs) :
            msgs'[m] # msgs[m] =>
              /\ last'.op = "editrolllog"
              /\ msgs[m].author = Bot
              /\ msgs'[m] = [msgs[m] EXCEPT !.text = NewText]
              /\ \E t \in TaskIds :
                   /\ tasks[t].pc = "edit"
                   /\ tasks[t].mid = m
                   /\ tasks[t].ch = msgs[m].ch
       /\ \A t \in TaskIds :
            /\ (tasks[t].pc = "idle" /\ tasks'[t].pc = "fetch") =>
                 LET k == guild_key(tasks'[t].g)
                 IN  /\ k \in DOMAIN cfg'
                     /\ cfg'[k].mod_channel_id = <<tasks'[t].ch>>
                     /\ tasks'[t].ch \in GuildChannels(tasks'[t].g)
                     /\ tasks'[t].mid \in Int
            /\ (tasks[t].pc = "fetch" /\ tasks'[t].pc = "edit") =>
                 LET T == tasks[t]
                 IN  /\ T.mid \in 1..Len(msgs)
                     /\ msgs[T.mid].ch = T.ch
                     /\ msgs[T.mid].author = Bot
            /\ (tasks[t].pc = "fetch" /\ tasks'[t].pc = "idle") =>
                 LET T == tasks[t]
                     there == T.mid \in 1..Len(msgs) /\ msgs[T.mid].ch = T.ch
                 IN  /\ msgs' = msgs
                     /\ \/ last'.resp = <<"raise", "HTTPException">>
                        \/ ~there /\ last'.resp = NotFoundReply
                        \/ /\ there
                           /\ msgs[T.mid].author # Bot
                           /\ last'.resp = NotOwnReply
       /\ (last'.op = "editrolllog" /\ tasks' = tasks) =>
            /\ msgs' = msgs
            /\ \/ last'.resp \in EditRefusals
               \/ /\ last'.resp[1] = "message_id must be a number."
                  /\ \E i \in 1..Len(last'.resp[2]) :
                       ~IsDecimal(last'.resp[2][i])
       /\ last'.op = "editrolllog" =>
            /\ \A k \in DOMAIN cfg : cfg'[k] = cfg[k]
            /\ \A k \in DOMAIN disk : disk'[k] = disk[k]]_vars

\* a log message of the bot has been edited, and the edit of a member's
\* message in the mod channel has been refused
C10_Witness ==
    /\ last.op = "editrolllog"
    /\ last.resp = NotOwnReply
    /\ msgs[1] = Message(12, "u2", "hello")
    /\ \E m \in 1..Len(msgs) : msgs[m] = Message(12, Bot, NewText)

\* C11: showodds is read-only: a showodds step, for a guild with or without
\* a record, leaves cfg and disk as they were and calls save_config not once
C11_ShowOddsReadOnly ==
    [][last'.op = "showodds" =>
         /\ cfg' = cfg
         /\ disk' = disk
         /\ last'.writes = 0]_vars

\* the names of the entries of a table that have a positive weight
PositiveNames(outcomes) ==
    {outcomes[i].name.v : i \in {j \in 1..Len(outcomes) :
                                   outcomes[j].weight.v > 0}}

\* the step taken draws d100 and name for the handler t
RollsTo(t, d100, name) ==
    /\ tasks'[t].pc = "dm"
    /\ tasks'[t].d100 = d100
    /\ tasks'[t].outcome = name

\* C12: the direct message of a roll carries a d100 value in 1..100 and the
\* name of an entry with a positive weight of the guild's table as it is
\* when the draws are made; and where a handler is about to draw (a
\* reaction on the roller message arrives at the idle bot, or fetch_user
\* returns), every pair of a value in 1..100 and a name with a positive
\* weight is a possible result of that one step
C12_RollRangeAndIndependence ==
    /\ \A e \in last.fx :
         e[1] = "dm" =>
           /\ e[3] \in 1..100
           /\ e[4] \in PositiveNames(cfg[guild_key(last.g[1])].outcomes)
           /\ \E t \in TaskIds :
                tasks[t].pc = "dm" /\ tasks[t].d100 = e[3]
                  /\ tasks[t].outcome = e[4]
    /\ \A t \in TaskIds :
         /\ tasks[t].pc = "fetch_user" =>
              \A d \in 1..100 :
                \A n \in PositiveNames(cfg[guild_key(tasks[t].g)].outcomes) :
                  ENABLED (/\ ReactionUserFetched(t, TRUE, randbelow(100))
                           /\ RollsTo(t, d, n))
         /\ last.op = "load_config" =>
              \A d \in 1..100 :
                \A n \in PositiveNames(cfg[guild_key(1)].outcomes) :
                  ENABLED (/\ ReactionAdd(t, "u1", <<1>>, randbelow(100))
                           /\ RollsTo(t, d, n))

\* a roll of 100 with the third of three names, in a guild whose table has
\* an entry of weight 0
C12_Witness ==
    /\ \E e \in last.fx : e[1] = "dm" /\ e[3] = 100 /\ e[4] = <<"C">>
    /\ \E i \in 1..Len(cfg[guild_key(1)].outcomes) :
         cfg[guild_key(1)].outcomes[i].weight.v = 0

\* the replies that acknowledge a change of the record
Acknowledgements ==
    {"Mod log channel set", "Trigger emoji set", "Odds updated",
     "Roller posted"}

\* C13: with a second command or a reaction handler running while a handler
\* is suspended, the document on disk equals the mapping in memory before
\* and after every handler step (no step ends in the middle of a change and
\* its save), no record leaves the store, a step that acknowledges a change
\* leaves the acknowledged value on disk, and a field on disk changes only
\* in a step that acknowledges a change of that field: the disk holds the
\* value of the latest acknowledgement of every field
C13_NoLostUpdate ==
    [][/\ disk = cfg
       /\ disk' = cfg'
       /\ DOMAIN disk \subseteq DOMAIN disk'
       /\ last'.resp # <<>> /\ last'.resp[1] \in Acknowledgements =>
            LET r == disk'[guild_key(last'.g[1])]
            IN  /\ last'.resp[1] = "Mod log channel set" =>
                     r.mod_channel_id = <<last'.resp[2]>>
                /\ last'.resp[1] = "Trigger emoji set" =>
                     r.trigger_emoji = last'.resp[2]
                /\ last'.resp[1] = "Roller posted" =>
                     /\ r.trigger_message_id = <<last'.resp[2]>>
                     /\ r.trigger_channel_id = <<msgs'[last'.resp[2]].ch>>
       /\ \A k \in DOMAIN disk' :
            \A f \in Fields :
              LET before == IF k \in DOMAIN disk THEN disk[k]
                            ELSE default_guild_config
              IN  disk'[k][f] # before[f] =>
                    /\ last'.resp[1] \in Acknowledgements
                    /\ f \in MayChange(last'.op)
                    /\ k = guild_key(last'.g[1])]_vars

\* a setemoji and a setmodchannel ran while a postroller was suspended (its
\* reply names the emoji it read before), the second postroller is still
\* suspended, and the disk holds the three changes
C13_Witness ==
    /\ last.op = "postroller"
    /\ last.resp = <<"Roller posted", 1, EmojiDice>>
    /\ tasks["t2"].pc = "react"
    /\ disk = cfg
    /\ disk[guild_key(1)].trigger_emoji = EmojiCustom
    /\ disk[guild_key(1)].mod_channel_id = <<12>>
    /\ disk[guild_key(1)].trigger_message_id = <<1>>

\* C14: a reaction event for a guild that has no record is ignored: it sends
\* no direct message, posts no log entry, removes no reaction, starts no
\* handler, and leaves cfg and disk as they were
C14_NoRecordReactionIgnored ==
    [][(/\ last'.op = "reaction"
        /\ last'.g # <<>>
        /\ guild_key(last'.g[1]) \notin DOMAIN cfg) =>
         /\ last'.resp[1] = "ignored"
         /\ last'.fx = {}
         /\ UNCHANGED <<msgs, tasks>>
         /\ cfg' = cfg
         /\ disk' = disk]_vars

\* the handler t is in the cleanup of lines 337-343, or over without an
\* exception
CleanupEntered(t) ==
    /\ last'.resp[1] # "raise"
    /\ \/ tasks'[t].pc = "cfetch"
       \/ tasks'[t] = Idle

\* C15: a dispatch attempts the direct message once: the direct message is
\* sent in the step that makes the draws and in no later step of the
\* handler. When user.send returns or raises, the handler goes on with the
\* same roll: with a mod channel set and resolved it posts the log entry
\* (for either result of the direct message), the entry carries the d100
\* value and the outcome name of the direct message and the actual result
\* of its delivery, and after the post, or with no mod channel, it enters
\* the cleanup that removes the reaction
C15_DmOnceThenLogThenCleanup ==
    /\ [](\A t \in TaskIds :
            (tasks[t].pc = "dm"
               /\ Truthy(cfg[guild_key(tasks[t].g)].mod_channel_id)) =>
              \A ok \in BOOLEAN :
                ENABLED (/\ ReactionDmDone(t, ok, TRUE)
                         /\ tasks'[t].pc = "log"
                         /\ tasks'[t].dm_ok = ok))
    /\ [][\A t \in TaskIds :
            /\ (\E e \in last'.fx : e[1] = "dm") =>
                 /\ tasks[t].pc \in {"idle", "fetch_user"}
                 /\ tasks'[t].pc = "dm"
                 /\ last'.fx \cap {e \in last'.fx : e[1] = "dm"} =
                      {<<"dm", tasks'[t].user, tasks'[t].d100,
                         tasks'[t].outcome>>}
            /\ (tasks'[t].pc = "dm" /\ tasks'[t] # tasks[t]) =>
                 tasks[t].pc \in {"idle", "fetch_user"}
            /\ (tasks[t].pc = "dm" /\ tasks'[t] # tasks[t]) =>
                 LET T == tasks[t]
                     mod_channel_id == cfg[guild_key(T.g)].mod_channel_id
                 IN  /\ \E ok \in BOOLEAN :
                          /\ last'.fx = {<<"dm_result", ok>>}
                          /\ tasks'[t].pc = "log" => tasks'[t].dm_ok = ok
                     /\ \/ /\ tasks'[t].pc = "log"
                           /\ Truthy(mod_channel_id)
                           /\ tasks'[t].ch_log = mod_channel_id[1]
                           /\ tasks'[t].d100 = T.d100
                           /\ tasks'[t].outcome = T.outcome
                           /\ tasks'[t].user = T.user
                        \/ CleanupEntered(t)
                     /\ ~Truthy(mod_channel_id) => CleanupEntered(t)
            /\ (tasks[t].pc = "log" /\ tasks'[t] # tasks[t]
                  /\ msgs' # msgs) =>
                 LET T == tasks[t]
                     mid == Len(msgs) + 1
                 IN  /\ msgs' = Append(msgs, Message(T.ch_log, Bot, "log"))
                     /\ last'.fx = {<<"log", T.ch_log, mid, T.user, T.d100,
                                      T.outcome, T.dm_ok, T.mid, T.ch>>}
                     /\ CleanupEntered(t)
            /\ (\E e \in last'.fx : e[1] = "unreact") =>
                 /\ tasks[t].pc = "cremove"
                 /\ last'.fx = {<<"unreact", tasks[t].mid, tasks[t].user>>}
         ]_vars

\* the direct message failed, and the log entry that says so is posted and
\* the handler is in the cleanup
C15_Witness ==
    \E t \in TaskIds :
      /\ tasks[t].pc = "cfetch"
      /\ \E e \in last.fx : e[1] = "log" /\ e[7] = FALSE /\ e[5] = 100

\* C16: a log post to the mod channel that fails is caught and discarded:
\* the step in which mod_ch.send raises does not end the handler with the
\* exception, and the handler enters the cleanup that removes the reaction
C16_LogFailureDiscarded ==
    [][\A t \in TaskIds :
         (tasks[t].pc = "log" /\ tasks'[t] # tasks[t] /\ msgs' = msgs) =>
           /\ last'.resp[1] # "raise"
           /\ tasks'[t].pc = "cfetch" \/ tasks'[t] = Idle]_vars

\* C17: the cleanup is never fatal: a step of the cleanup (fetch_message or
\* remove_reaction returning or raising) raises nothing out of the handler,
\* ends the handler or goes on to the removal, and leaves cfg, disk and the
\* messages posted (the log entry among them) as they are; and when the
\* handler is over after its cleanup, a reaction on the bound message with
\* the trigger emoji is dispatched again
C17_CleanupNeverFatal ==
    /\ [][\A t \in TaskIds :
            (tasks[t].pc \in {"cfetch", "cremove"} /\ tasks'[t] # tasks[t]) =>
              /\ last'.resp \in {<<"await">>, <<"done">>}
              /\ tasks'[t] = Idle \/ tasks'[t].pc = "cremove"
              /\ tasks[t].pc = "cremove" => tasks'[t] = Idle
              /\ UNCHANGED <<cfg, disk, msgs>>]_vars
    /\ [](last.op = "reaction" /\ last.resp = <<"done">> =>
            \E t \in TaskIds :
              ENABLED (/\ ReactionAdd(t, "u1", last.g, RollSample)
                       /\ Dispatches(t)))

\* remove_reaction or fetch_message failed after the log entry of the roll
\* was posted: the handler is over, the entry is there, the binding is kept
C17_Witness ==
    /\ last.op = "reaction"
    /\ last.resp = <<"done">>
    /\ last.fx = {}
    /\ \A t \in TaskIds : tasks[t] = Idle
    /\ \E m \in 1..Len(msgs) : msgs[m] = Message(12, Bot, "log")
    /\ Truthy(cfg[guild_key(1)].trigger_message_id)

\* the roller messages whose postroller is over
PostedRollers ==
    {m \in 1..Len(msgs) :
       /\ msgs[m].author = Bot
       /\ msgs[m].text = "roller"
       /\ \A t \in DOMAIN tasks :
            ~(tasks[t].pc = "react" /\ tasks[t].mid = m)}

\* C18: the step of a moderator's postroller that follows the sent roller
\* message binds the guild's trigger to that message and its channel, in
\* cfg and on disk, whether add_reaction succeeded or not; and from then on
\* a reaction is dispatched only if it is on the bound message and that is
\* the newest of the roller messages posted: a reaction on a roller message
\* posted before it is ignored
C18_NewestRollerDispatches ==
    [][\A t \in DOMAIN tasks :
         /\ (tasks[t].pc = "react" /\ tasks'[t] # tasks[t]) =>
              LET T == tasks[t]
                  k == guild_key(T.g)
              IN  /\ T.mod
                  /\ msgs[T.mid] = Message(T.ch, Bot, "roller")
                  /\ last'.resp = <<"Roller posted", T.mid, T.emoji>>
                  /\ cfg'[k].trigger_message_id = <<T.mid>>
                  /\ cfg'[k].trigger_channel_id = <<T.ch>>
                  /\ disk'[k] = cfg'[k]
         /\ Dispatches(t) =>
              LET k == guild_key(tasks'[t].g)
              IN  /\ cfg[k].trigger_message_id = <<tasks'[t].mid>>
                  /\ cfg[k].trigger_channel_id = <<tasks'[t].ch>>
                  /\ tasks'[t].mid \in PostedRollers
                  /\ \A m \in PostedRollers : m <= tasks'[t].mid]_vars

\* C19: when postroller records the trigger binding, the emoji it put in the
\* text of the roller message and attached to it as a reaction (the emoji
\* of its reply) is the guild's trigger_emoji of that moment, also when a
\* setemoji ran while the postroller was suspended
C19_BoundEmojiIsConfigured ==
    [][\A t \in DOMAIN tasks :
         (tasks[t].pc = "react" /\ tasks'[t] # tasks[t]) =>
           LET T == tasks[t]
               k == guild_key(T.g)
           IN  /\ cfg'[k].trigger_message_id = <<T.mid>>
               /\ last'.resp = <<"Roller posted", T.mid, T.emoji>>
               /\ \A e \in last'.fx : e[1] = "react" => e[3] = T.emoji
               /\ T.emoji = cfg'[k].trigger_emoji]_vars

\* trigger_message_id and trigger_channel_id of a record are both unset or
\* both set
BindingWhole(store) ==
    \A k \in DOMAIN store :
      Truthy(store[k].trigger_message_id)
        <=> Truthy(store[k].trigger_channel_id)

\* a record of store that has a binding has one in after
BindingKept(store, after) ==
    \A k \in DOMAIN store :
      Truthy(store[k].trigger_message_id) =>
        /\ k \in DOMAIN after
        /\ Truthy(after[k].trigger_message_id)
        /\ Truthy(after[k].trigger_channel_id)

\* C20: in every state reachable from the empty store every guild record, in
\* cfg and on disk, has trigger_message_id and trigger_channel_id both unset
\* or both set, and no step of a command or of the reaction handler makes
\* the ids of a record that has a binding unset
C20_BindingWholeAndKept ==
    /\ [](BindingWhole(cfg) /\ BindingWhole(disk))
    /\ [][BindingKept(cfg, cfg') /\ BindingKept(disk, disk')]_vars

\* a guild bound to a roller message by postroller has then had its emoji
\* set by setemoji
C20_Witness ==
    /\ last.op = "setemoji"
    /\ last.resp[1] = "Trigger emoji set"
    /\ disk[guild_key(1)].trigger_message_id = <<2>>
    /\ disk[guild_key(1)].trigger_channel_id = <<11>>

=============================================================================
